---- MODULE Spec2Model ----
(***************************************************************************)
(* A model of the web-scraping workflow: DatePickerUtil.select_date and    *)
(* FileManagerUtil.rename_file (src/Utilities.py),                         *)
(* DataSelectionService.select_data, _select_elements, _select_parameters, *)
(* _extract_table and checked_click (src/DatasSelectionService.py),        *)
(* DownloadService.download_data (src/DownloadService.py), the driver      *)
(* life cycle of WebDriverManager (src/WebDriverManager.py) and            *)
(* init_workflow (src/main.py).  The browser and the file system are the   *)
(* environment: every WebDriverWait may time out, every click may raise,   *)
(* and what the page shows and what the disk holds is chosen by them, not  *)
(* by the program.                                                         *)
(***************************************************************************)
EXTENDS Integers, Sequences, FiniteSets, TLC

\* ---------------------------------------------------------------- bounds
NumYears == 2
MaxNames == 2
MaxPages == 3
MaxWait == 3

\* The default year of DataSelectionService.__init__; the modelled calendar
\* years end with it.
DefaultYear == 2025

Years == (DefaultYear - NumYears + 1)..DefaultYear
\* The model counts the "prev" activations of a run up to this many; the
\* code has no bound on them.
MaxClicks == 12 * NumYears + 12
\* The model keeps the rows, the pages and the controls of this many rounds
\* of the pagination loop; the code has no bound on the rounds.
MaxReads == MaxPages + 1
DaySet == {15, 31}

\* ------------------------------------------------------------------ text
\* A text is a sequence of tokens: a word (with or without capital letters)
\* or a number.  str.lower() maps every word to its lower-case form.
MonthName == <<"enero", "febrero", "marzo", "abril", "mayo", "junio", "julio",
               "agosto", "septiembre", "octubre", "noviembre", "diciembre">>

Word(w, up) == [kind |-> "word", w |-> w, up |-> up, n |-> 0]
Num(n) == [kind |-> "num", w |-> "", up |-> FALSE, n |-> n]

MutLower(text) == text
Lower(text) == [i \in DOMAIN text |-> [text[i] EXCEPT !.up = FALSE]]

\* word in text, for one-word needles (str.__contains__)
Contains(text, word) == \E i \in DOMAIN text : text[i] = word

\* re.search(r'(\d{4})', text): the first 4-digit number of the text, 0 for
\* no match.
YearMatch(text) ==
    LET hits == {i \in DOMAIN text : text[i].kind = "num" /\ text[i].n >= 1000
                                      /\ text[i].n <= 9999}
    IN IF hits = {} THEN 0
       ELSE text[CHOOSE i \in hits : \A j \in hits : i <= j].n

\* ------------------------------------------------ the date-picker widget
IsLeap(y) == (y % 4 = 0 /\ y % 100 # 0) \/ y % 400 = 0
DaysIn(m, y) ==
    IF m = 2 THEN (IF IsLeap(y) THEN 29 ELSE 28)
    ELSE IF m \in {4, 6, 9, 11} THEN 30 ELSE 31

\* What the datepicker-switch header shows for the widget's month and year.
HeaderText(m, y, kind, caps) ==
    IF kind = "noyear" THEN <<Word(MonthName[m], caps)>>
    ELSE <<Word(MonthName[m], caps), Num(y)>>

\* The month before (m, y).
PrevMonth(m, y) == IF m = 1 THEN <<12, y - 1>> ELSE <<m - 1, y>>

\* The earliest month a widget goes back to (its start date).
FloorYear == DefaultYear - NumYears
\* The widget after its "prev" control is activated: the month before, or
\* the same month for a widget that is at its start date ("stuck": a widget
\* whose start date is the month it shows first).
WidgetPrev(m, y, kind) ==
    IF kind = "stuck" \/ (y = FloorYear /\ m = 1) \/ y < FloorYear THEN <<m, y>>
    ELSE PrevMonth(m, y)

\* A count of activations, kept up to MaxClicks.
Counted(n) == IF n < MaxClicks THEN n + 1 ELSE n

\* Months from (m1, y1) back to (m2, y2).
MonthsBack(m1, y1, m2, y2) == (y1 * 12 + m1) - (y2 * 12 + m2)

VARIABLES
    \* DatePickerUtil.select_date
    dpc,            \* position in select_date
    day, month, year,   \* the target
    current_text, current_year,
    wMonth, wYear, wKind, wCaps, w0,   \* the widget (w0: what it showed first)
    yearClicks, monthClicks, dayClicked,
    dfault,         \* the exception select_date raised
    \* DataSelectionService._extract_table
    epc,            \* position in _extract_table
    table_xpath, pagination_next_xpath,   \* the locators it was called with
    tbl, uiPage,    \* the table the page holds, and the page of it shown
    headers, data,
    saved,          \* the file df.to_excel wrote
    obsLog,         \* the next-page controls the lookups found, in order
    pagesRead,      \* the pages whose rows were appended, in order
    nextClicks,
    efault,         \* the exception _extract_table raised
    \* DataSelectionService.select_data
    pc,             \* position in select_data
    typology_key, elements, parameters,
    idx,            \* position of the loop over elements or parameters
    sel, sel0,      \* which checkboxes are selected, now and at first
    clicks,         \* element.click() calls that returned, per control
    applied,        \* checked_click calls that returned, per control
    trace,          \* the UI actions issued, in order
    warnings,       \* the names logged as having no XPATH
    stepFailed,     \* the step that raised
    sfault,         \* the exception select_data raised to its caller
    \* DownloadService.download_data
    dlpc,           \* position in download_data
    download_directory, max_download_wait, renamed_filename_pattern,
    dlArgs,         \* the day, month and year download_data was called with
    today,          \* the current date, as time.strftime gives it
    platform,       \* the operating system the program runs on
    elapsed, downloaded_file, final_name,
    srcFile, dstFile,   \* the files at the polled path and at the new path
    writer,         \* the browser's download: "idle", "writing", "done"
    requested,      \* the download button was clicked
    pollLog,        \* what each poll of the wait found, in order
    renameLog,      \* what each os.rename call met, in order
    dlfault,        \* the exception download_data raised to its caller
    \* WebDriverManager and main.init_workflow
    mpc,            \* position in the workflow
    usage,          \* "main": init_workflow; "with": a with WebDriverManager
    now,            \* datetime.now()
    driver,         \* the WebDriver: "none", "live", "quit"
    service,        \* the arguments DataSelectionService was built with
    mfault          \* the exception that ended the workflow

dateVars == <<dpc, day, month, year, current_text, current_year,
              wMonth, wYear, wKind, wCaps, w0, yearClicks, monthClicks,
              dayClicked, dfault>>

extractVars == <<epc, table_xpath, pagination_next_xpath, tbl, uiPage, headers,
                 data, saved, obsLog, pagesRead, nextClicks, efault>>

selectVars == <<pc, typology_key, elements, parameters, idx, sel, sel0, clicks,
                applied, trace, warnings, stepFailed, sfault>>

downloadVars == <<dlpc, download_directory, max_download_wait,
                  renamed_filename_pattern, dlArgs, today, platform, elapsed,
                  downloaded_file, final_name, srcFile, dstFile, writer,
                  requested, pollLog, renameLog, dlfault>>

sessionVars == <<mpc, usage, now, driver, service, mfault>>

\* The services select_data does not call.
restVars == <<downloadVars, sessionVars>>

vars == <<dateVars, extractVars, selectVars, restVars>>

\* What a step of select_date, and of _extract_table, leaves alone.
outsideDate == <<extractVars, selectVars, restVars>>
outsideExtract == <<dateVars, selectVars, restVars>>
\* What a step of download_data leaves alone.
outsideDownload == <<dateVars, extractVars, selectVars, sessionVars>>
\* What a step of the workflow around the driver leaves alone.
outsideSession == <<dateVars, extractVars, selectVars, downloadVars>>

NoText == <<>>
NoDay == <<0, 0, 0>>

\* The widget and the target a run of select_date can meet.
InitDateConfig ==
    /\ day \in DaySet
    /\ month \in {Word(MonthName[m], up) : m \in 1..12, up \in BOOLEAN}
    /\ year \in Years
    /\ wMonth \in 1..12
    /\ wYear \in Years
    /\ wKind \in {"normal", "noyear"}
    /\ wCaps \in BOOLEAN
    /\ w0 = <<wMonth, wYear>>
    /\ current_text = NoText
    /\ current_year = 0
    /\ yearClicks = 0
    /\ monthClicks = 0
    /\ dayClicked = NoDay
    /\ dfault = "none"

\* except Exception: logger.error(...); raise
DateRaise(exc) ==
    /\ dpc' = "raised"
    /\ dfault' = exc

\* wait.until(visibility_of input).click(); wait.until(visibility_of
\* container)
DP_Open ==
    /\ dpc = "open"
    /\ \/ /\ dpc' = "read"
          /\ dfault' = dfault
       \/ DateRaise("TimeoutException")
    /\ UNCHANGED <<day, month, year, current_text, current_year, wMonth, wYear,
                   wKind, wCaps, w0, yearClicks, monthClicks, dayClicked>>
    /\ UNCHANGED outsideDate

\* current_year after re.search on the text just read (lines 64-69)
MutFirstYear(text, target) == YearMatch(text)
FirstYear(text, target) ==
    IF YearMatch(text) # 0 THEN YearMatch(text) ELSE target

\* datepicker_switch = wait.until(...); current_text = text.lower();
\* current_year = matched year, or the target year
DP_ReadSwitch ==
    /\ dpc = "read"
    /\ \/ /\ current_text' = Lower(HeaderText(wMonth, wYear, wKind, wCaps))
          /\ current_year' = FirstYear(current_text', year)
          /\ dpc' = "year_loop"
          /\ dfault' = dfault
       \/ /\ DateRaise("TimeoutException")
          /\ UNCHANGED <<current_text, current_year>>
    /\ UNCHANGED <<day, month, year, wMonth, wYear, wKind, wCaps, w0,
                   yearClicks, monthClicks, dayClicked>>
    /\ UNCHANGED outsideDate

\* current_year after the re-read in the year loop (lines 90-92): kept
\* when the text has no year
MutNextYear(text, cur) == cur
NextYear(text, cur) == IF YearMatch(text) # 0 THEN YearMatch(text) ELSE cur

\* the branch of line 77
MutYearGoesBack(cur, target) == TRUE
YearGoesBack(cur, target) == cur > target

\* while current_year != year, current_year > year: prev_button.click()
DP_YearStepPrev ==
    /\ dpc = "year_loop"
    /\ current_year # year
    /\ YearGoesBack(current_year, year)
    /\ \/ /\ wMonth' = WidgetPrev(wMonth, wYear, wKind)[1]
          /\ wYear' = WidgetPrev(wMonth, wYear, wKind)[2]
          /\ yearClicks' = Counted(yearClicks)
          /\ dpc' = "year_read"
          /\ dfault' = dfault
       \/ /\ DateRaise("NoSuchElementException")
          /\ UNCHANGED <<wMonth, wYear, yearClicks>>
    /\ UNCHANGED <<day, month, year, current_text, current_year, wKind, wCaps,
                   w0, monthClicks, dayClicked>>
    /\ UNCHANGED outsideDate

\* in the year loop, after the click: re-read the switch (lines 87-92)
DP_YearReread ==
    /\ dpc = "year_read"
    /\ \/ /\ current_text' = Lower(HeaderText(wMonth, wYear, wKind, wCaps))
          /\ current_year' = NextYear(current_text', current_year)
          /\ dpc' = "year_loop"
          /\ dfault' = dfault
       \/ /\ DateRaise("TimeoutException")
          /\ UNCHANGED <<current_text, current_year>>
    /\ UNCHANGED <<day, month, year, wMonth, wYear, wKind, wCaps, w0,
                   yearClicks, monthClicks, dayClicked>>
    /\ UNCHANGED outsideDate

\* while current_year != year, else branch:
\* raise NotImplementedError("Falta implementar el botón 'next' ...")
DP_YearUnsupported ==
    /\ dpc = "year_loop"
    /\ current_year # year
    /\ ~YearGoesBack(current_year, year)
    /\ DateRaise("NotImplementedError")
    /\ UNCHANGED <<day, month, year, current_text, current_year, wMonth, wYear,
                   wKind, wCaps, w0, yearClicks, monthClicks, dayClicked>>
    /\ UNCHANGED outsideDate

\* the year loop ends
DP_YearAligned ==
    /\ dpc = "year_loop"
    /\ current_year = year
    /\ dpc' = "month_loop"
    /\ UNCHANGED <<day, month, year, current_text, current_year, wMonth, wYear,
                   wKind, wCaps, w0, yearClicks, monthClicks, dayClicked, dfault>>
    /\ UNCHANGED outsideDate

\* the test of line 96: month.lower() not in current_text
MutMonthMissing(m, text) == Contains(text, [m EXCEPT !.up = FALSE])
MonthMissing(m, text) == ~Contains(text, [m EXCEPT !.up = FALSE])

\* while month.lower() not in current_text: prev_button.click()
DP_MonthStepPrev ==
    /\ dpc = "month_loop"
    /\ MonthMissing(month, current_text)
    /\ \/ /\ wMonth' = WidgetPrev(wMonth, wYear, wKind)[1]
          /\ wYear' = WidgetPrev(wMonth, wYear, wKind)[2]
          /\ monthClicks' = Counted(monthClicks)
          /\ dpc' = "month_read"
          /\ dfault' = dfault
       \/ /\ DateRaise("NoSuchElementException")
          /\ UNCHANGED <<wMonth, wYear, monthClicks>>
    /\ UNCHANGED <<day, month, year, current_text, current_year, wKind, wCaps,
                   w0, yearClicks, dayClicked>>
    /\ UNCHANGED outsideDate

\* in the month loop, after the click: re-read the switch (lines 99-101)
DP_MonthReread ==
    /\ dpc = "month_read"
    /\ \/ /\ current_text' = Lower(HeaderText(wMonth, wYear, wKind, wCaps))
          /\ dpc' = "month_loop"
          /\ dfault' = dfault
       \/ /\ DateRaise("TimeoutException")
          /\ UNCHANGED current_text
    /\ UNCHANGED <<day, month, year, current_year, wMonth, wYear, wKind, wCaps,
                   w0, yearClicks, monthClicks, dayClicked>>
    /\ UNCHANGED outsideDate

\* the month loop ends
DP_MonthAligned ==
    /\ dpc = "month_loop"
    /\ ~MonthMissing(month, current_text)
    /\ dpc' = "day"
    /\ UNCHANGED <<day, month, year, current_text, current_year, wMonth, wYear,
                   wKind, wCaps, w0, yearClicks, monthClicks, dayClicked, dfault>>
    /\ UNCHANGED outsideDate

\* day_element = wait.until(clickable //td[@class="day" and text()=day]);
\* day_element.click().  The cell exists when the shown month has that day.
DP_ClickDay ==
    /\ dpc = "day"
    /\ \/ /\ day \in 1..DaysIn(wMonth, wYear)
          /\ dayClicked' = <<day, wMonth, wYear>>
          /\ dpc' = "returned"
          /\ dfault' = dfault
       \/ /\ DateRaise("TimeoutException")
          /\ UNCHANGED dayClicked
    /\ UNCHANGED <<day, month, year, current_text, current_year, wMonth, wYear,
                   wKind, wCaps, w0, yearClicks, monthClicks>>
    /\ UNCHANGED outsideDate

\* --------------------------------------------------------- the table
\* A cell text: its non-blank core and whether white space surrounds it.
\* str.strip() removes the surrounding white space.
Strip(t) == [t EXCEPT !.pad = FALSE]
IsBlank(t) == t.body = <<>>

CellText(p, r, c) == [pad |-> (p + r + c) % 2 = 0, body |-> <<p, r, c>>]
HeadText(c, named) == [pad |-> c % 2 = 1, body |-> IF named THEN <<c>> ELSE <<>>]
\* The value pandas puts where a row has no cell.
NoneCell == [pad |-> FALSE, body |-> <<0>>]

Uniform(n) == [i \in 1..n |-> 2]
\* The rows of a page, as the number of cells of each row.
PageShapes == {Uniform(10), Uniform(4), <<2, 1>>, <<3, 2>>}
\* The header cells: named or blank.
HeadShapes == {<<>>, <<TRUE, TRUE>>, <<TRUE, FALSE, TRUE>>}

SeqsUpTo(S, n) == UNION {[1..k -> S] : k \in 1..n}
Tables == [head : HeadShapes, pages : SeqsUpTo(PageShapes, MaxPages)]

HeadCells(t) == [c \in DOMAIN t.head |-> HeadText(c, t.head[c])]
PageRows(t, p) ==
    [r \in DOMAIN t.pages[p] |-> [c \in 1..t.pages[p][r] |-> CellText(p, r, c)]]

\* The element a locator finds: the table under config.table_xpath, the
\* next-page control under config.pagination_next_xpath; '' finds nothing.
ElementAt(loc) ==
    IF loc = "table_xpath" THEN "TABLE"
    ELSE IF loc = "pagination_next_xpath" THEN "NEXT" ELSE "NONE"

\* find_elements('.//thead//th') and find_elements('.//tbody/tr') below the
\* element found: only the table has any.
HeadOf(elem) == IF elem = "TABLE" THEN HeadCells(tbl) ELSE <<>>
RowsOf(elem, p) == IF elem = "TABLE" THEN PageRows(tbl, p) ELSE <<>>

\* A next-page control as a lookup finds it: absent, or present with a class
\* attribute ("none": no such attribute), a selected state and a click that
\* works or raises.
Ctl(present, class, selected, clickOk) ==
    [present |-> present, class |-> class, selected |-> selected,
     clickOk |-> clickOk]
CtlAbsent == Ctl(FALSE, "none", FALSE, FALSE)
CtlDisabled == Ctl(TRUE, "page-item disabled", FALSE, TRUE)
CtlEnabled == Ctl(TRUE, "page-item", FALSE, TRUE)
CtlNoClass == Ctl(TRUE, "none", FALSE, TRUE)
CtlSelected == Ctl(TRUE, "page-item", TRUE, TRUE)
CtlUnclickable == Ctl(TRUE, "page-item", FALSE, FALSE)
NextControls == {CtlAbsent, CtlDisabled, CtlEnabled, CtlNoClass, CtlSelected,
                 CtlUnclickable}
\* What find_element finds under the locator given as pagination_next_xpath.
FoundAsNext(loc) ==
    IF ElementAt(loc) = "NEXT" THEN NextControls
    ELSE IF ElementAt(loc) = "TABLE"
         THEN {Ctl(TRUE, "table", FALSE, TRUE), Ctl(TRUE, "table", FALSE, FALSE)}
         ELSE {CtlAbsent}

NoFile == [written |-> FALSE, columns |-> <<>>, rows |-> <<>>]

InitExtractConfig ==
    /\ tbl \in Tables
    /\ uiPage = 1
    /\ headers = <<>>
    /\ data = <<>>
    /\ saved = NoFile
    /\ obsLog = <<>>
    /\ pagesRead = <<>>
    /\ nextClicks = 0
    /\ efault = "none"

ExtractRaise(exc) ==
    /\ epc' = "raised"
    /\ efault' = exc

\* headers = [header.text.strip() for header in header_elements
\*            if header.text.strip()]
MutHeaderTexts(cells) == [i \in DOMAIN cells |-> Strip(cells[i])]
HeaderTexts(cells) ==
    LET stripped == [i \in DOMAIN cells |-> Strip(cells[i])]
        keep(t) == ~IsBlank(t)
    IN SelectSeq(stripped, keep)

\* table_element = wait.until(presence(table_xpath)); headers = ...
EX_WaitTable ==
    /\ epc = "start"
    /\ \/ /\ ElementAt(table_xpath) # "NONE"
          /\ headers' = HeaderTexts(HeadOf(ElementAt(table_xpath)))
          /\ epc' = "read_page"
          /\ efault' = efault
       \/ /\ ExtractRaise("TimeoutException")
          /\ UNCHANGED headers
    /\ UNCHANGED <<table_xpath, pagination_next_xpath, tbl, uiPage, data, saved,
                   obsLog, pagesRead, nextClicks>>
    /\ UNCHANGED outsideExtract

\* for row in rows: values = [cell.text.strip() for cell in cells];
\* data.append(values)
MutPageValues(rows) ==
    [r \in 1..(Len(rows) - 1) |-> [c \in DOMAIN rows[r] |-> Strip(rows[r][c])]]
PageValues(rows) ==
    [r \in DOMAIN rows |-> [c \in DOMAIN rows[r] |-> Strip(rows[r][c])]]

\* A history of the loop, kept for its first MaxReads rounds.
Kept(q, more) == IF Len(q) < MaxReads THEN q \o more ELSE q

\* The wait of line 210 times out: it stands outside the try of lines
\* 219-229, so the TimeoutException leaves _extract_table.
MutOnTableTimeout ==
    /\ epc' = "frame"
    /\ efault' = efault
OnTableTimeout == ExtractRaise("TimeoutException")

\* while True: table_element = wait.until(...); rows = ...; data.append(...)
EX_ReadPage ==
    /\ epc = "read_page"
    /\ \/ /\ ElementAt(table_xpath) # "NONE"
          /\ data' = IF Len(pagesRead) < MaxReads
                     THEN data \o PageValues(RowsOf(ElementAt(table_xpath), uiPage))
                     ELSE data
          /\ pagesRead' = Kept(pagesRead, <<uiPage>>)
          /\ epc' = "next"
          /\ efault' = efault
       \/ /\ OnTableTimeout
          /\ UNCHANGED <<data, pagesRead>>
    /\ UNCHANGED <<table_xpath, pagination_next_xpath, tbl, uiPage, headers,
                   saved, obsLog, nextClicks>>
    /\ UNCHANGED outsideExtract

\* checked_click(element): "skipped" when element.is_selected(), "clicked"
\* when element.click() returns, "raised" when it raises.
MutCheckedClick(ctl) == IF ctl.clickOk THEN "clicked" ELSE "raised"
CheckedClick(ctl) ==
    IF ctl.selected THEN "skipped"
    ELSE IF ctl.clickOk THEN "clicked" ELSE "raised"

\* The try block of lines 219-229 on the control found: "break" (also from
\* the except clause), "clicked" or "skipped" (both go round the loop).
MutPaginate(ctl) ==
    IF ctl.present /\ ctl.class = "page-item disabled" THEN "break"
    ELSE "skipped"
Paginate(ctl) ==
    IF ~ctl.present THEN "break"               \* find_element raises
    ELSE IF ctl.class = "none" THEN "break"    \* 'disabled' in None raises
    ELSE IF ctl.class = "page-item disabled" THEN "break"
    ELSE IF CheckedClick(ctl) = "raised" THEN "break"
    ELSE CheckedClick(ctl)

\* The page shown after the element is clicked: the next-page control turns
\* the page while there is one; any other element turns nothing.
PageAfterClick(loc) ==
    IF ElementAt(loc) = "NEXT" /\ uiPage < Len(tbl.pages) THEN uiPage + 1
    ELSE uiPage

\* try: next_button = find_element(pagination_next_xpath); ... except: break
EX_Paginate ==
    /\ epc = "next"
    /\ \E ctl \in FoundAsNext(pagination_next_xpath) :
          /\ obsLog' = Kept(obsLog, <<ctl>>)
          /\ \/ /\ Paginate(ctl) = "break"
                /\ epc' = "frame"
                /\ UNCHANGED <<uiPage, nextClicks>>
             \/ /\ Paginate(ctl) = "clicked"
                /\ uiPage' = PageAfterClick(pagination_next_xpath)
                /\ nextClicks' = IF nextClicks < MaxReads THEN nextClicks + 1
                                 ELSE nextClicks
                /\ epc' = "read_page"
             \/ /\ Paginate(ctl) = "skipped"
                /\ epc' = "read_page"
                /\ UNCHANGED <<uiPage, nextClicks>>
    /\ UNCHANGED <<table_xpath, pagination_next_xpath, tbl, headers, data, saved,
                   pagesRead, efault>>
    /\ UNCHANGED outsideExtract

\* pd.DataFrame(data, columns=headers if headers else None): the frame is as
\* wide as the widest row, shorter rows are filled with None, and a column
\* list of another length is refused (ValueError).
MaxWidth(rows) ==
    IF rows = <<>> THEN 0
    ELSE LET widths == {Len(rows[r]) : r \in DOMAIN rows}
         IN CHOOSE w \in widths : \A v \in widths : v <= w

FrameRefused(rows, cols) ==
    rows # <<>> /\ cols # <<>> /\ Len(cols) # MaxWidth(rows)

FrameRows(rows) ==
    [r \in DOMAIN rows |->
        [c \in 1..MaxWidth(rows) |->
            IF c <= Len(rows[r]) THEN rows[r][c] ELSE NoneCell]]

\* df = pd.DataFrame(...); df.to_excel(file_name, index=False)
EX_Save ==
    /\ epc = "frame"
    /\ \/ /\ FrameRefused(data, headers)
          /\ ExtractRaise("ValueError")
          /\ UNCHANGED saved
       \/ /\ ~FrameRefused(data, headers)
          /\ \/ /\ saved' = [written |-> TRUE, columns |-> headers,
                             rows |-> FrameRows(data)]
                /\ epc' = "returned"
                /\ efault' = efault
             \/ /\ ExtractRaise("OSError")
                /\ UNCHANGED saved
    /\ UNCHANGED <<table_xpath, pagination_next_xpath, tbl, uiPage, headers, data,
                   obsLog, pagesRead, nextClicks>>
    /\ UNCHANGED outsideExtract

\* ----------------------------------------------------------- select_data
\* Typology.Typology, Elements.Elements and Parameters.Parameters_inv, cut
\* to two elements and one parameter.
ElementsDict == ("UP1 INV1.1-01" :> "//e1") @@ ("UP1 INV1.1-02" :> "//e2")
ParametersInv == ("CALIDAD COM" :> "//p1")
Typology ==
    ("Inversor - (INVERSOR)" :> [Elements |-> ElementsDict,
                                 Parameters |-> ParametersInv])

\* The names a caller may configure: those of the dictionaries and one more.
ElementNames == DOMAIN ElementsDict \cup {"UP9 INV9.9-99"}
TypologyKeys == {"Inversor - (INVERSOR)", "Dominicana"}
Checkboxes == {"//e1", "//e2", "//p1"}
Buttons == {"daily_button_xpath", "next_button_xpath", "confirm_button_xpath"}

SeqsFrom0(S, n) == UNION {[1..k -> S] : k \in 0..n}

\* dict.get(name): "None" for a missing key
Get(dict, name) == IF name \in DOMAIN dict THEN dict[name] ELSE "None"
\* if not xpath
Unresolved(xpath) == xpath \in {"None", ""}
\* line 172 and line 188: continue
MutUnresolvedOutcome == "return"
UnresolvedOutcome == "continue"

Ev(step, name) == [step |-> step, name |-> name]

\* The order of the statements of select_data.
MutStepAfter(step) ==
    CASE step = "get" -> "daily"
      [] step = "daily" -> "date_call"
      [] step = "date" -> "typology"
      [] step = "typology" -> "parameters"
      [] step = "parameters" -> "elements"
      [] step = "elements" -> "next"
      [] step = "next" -> "extract_call"
      [] step = "extract" -> "confirm"
      [] step = "confirm" -> "done"
StepAfter(step) ==
    CASE step = "get" -> "daily"
      [] step = "daily" -> "date_call"
      [] step = "date" -> "typology"
      [] step = "typology" -> "elements"
      [] step = "elements" -> "parameters"
      [] step = "parameters" -> "next"
      [] step = "next" -> "extract_call"
      [] step = "extract" -> "confirm"
      [] step = "confirm" -> "done"

\* except Exception as e: logging.error(...); raise
MutReraise(exc) ==
    /\ pc' = "done"
    /\ sfault' = "none"
Reraise(exc) ==
    /\ pc' = "failed"
    /\ sfault' = exc

\* A statement of the try block of select_data raises.
Fail(step, exc) ==
    /\ stepFailed' = step
    /\ Reraise(exc)

Goes(step) ==
    /\ pc' = StepAfter(step)
    /\ UNCHANGED <<stepFailed, sfault>>

\* checked_click on a control: the counts and the checkbox state after it.
Touched(c, r) ==
    /\ applied' = IF r = "raised" THEN applied
                  ELSE [applied EXCEPT ![c] = @ + 1]
    /\ clicks' = IF r = "clicked" THEN [clicks EXCEPT ![c] = @ + 1] ELSE clicks
    /\ sel' = IF r = "clicked" /\ c \in Checkboxes
              THEN [sel EXCEPT ![c] = ~@] ELSE sel

\* self.driver.get(self.config.url_analysis)
SD_Get ==
    /\ pc = "get"
    /\ trace' = Append(trace, Ev("get", ""))
    /\ \/ Goes("get")
       \/ Fail("get", "WebDriverException")
    /\ UNCHANGED <<typology_key, elements, parameters, idx, sel, sel0, clicks,
                   applied, warnings>>
    /\ UNCHANGED <<dateVars, extractVars, restVars>>

\* button = wait.until(element_to_be_clickable(xpath));
\* self.checked_click(button): lines 110-111 and 140-141
ClickButton(step, xpath) ==
    /\ pc = step
    /\ \/ \E s \in BOOLEAN, ok \in BOOLEAN :
            LET r == CheckedClick(Ctl(TRUE, "button", s, ok))
            IN /\ trace' = Append(trace, Ev(step, ""))
               /\ Touched(xpath, r)
               /\ IF r = "raised" THEN Fail(step, "WebDriverException")
                  ELSE Goes(step)
       \/ /\ Fail(step, "TimeoutException")
          /\ UNCHANGED <<trace, applied, clicks, sel>>
    /\ UNCHANGED <<typology_key, elements, parameters, idx, sel0, warnings>>
    /\ UNCHANGED <<dateVars, extractVars, restVars>>

SD_Daily == ClickButton("daily", "daily_button_xpath")

\* DatePickerUtil.select_date(self.driver, self.day, self.month, self.year)
SD_CallDate ==
    /\ pc = "date_call"
    /\ dpc = "idle"
    /\ dpc' = "open"
    /\ pc' = "date"
    /\ trace' = Append(trace, Ev("date", ""))
    /\ UNCHANGED <<day, month, year, current_text, current_year, wMonth, wYear,
                   wKind, wCaps, w0, yearClicks, monthClicks, dayClicked, dfault>>
    /\ UNCHANGED <<typology_key, elements, parameters, idx, sel, sel0, clicks,
                   applied, warnings, stepFailed, sfault>>
    /\ UNCHANGED <<extractVars, restVars>>

\* select_date returns (time.sleep(2)), or its exception reaches the except
\* clause of select_data
SD_DateDone ==
    /\ pc = "date"
    /\ \/ /\ dpc = "returned"
          /\ Goes("date")
       \/ /\ dpc = "raised"
          /\ Fail("date", dfault)
    /\ UNCHANGED <<typology_key, elements, parameters, idx, sel, sel0, clicks,
                   applied, trace, warnings>>
    /\ UNCHANGED <<dateVars, extractVars, restVars>>

\* typology_element = wait.until(presence(...));
\* Select(typology_element).select_by_visible_text(self.typology_key)
SD_Typology ==
    /\ pc = "typology"
    /\ \/ /\ trace' = Append(trace, Ev("typology", ""))
          /\ \/ /\ Goes("typology")
                /\ idx' = 1
             \/ /\ Fail("typology", "NoSuchElementException")
                /\ UNCHANGED idx
       \/ /\ Fail("typology", "TimeoutException")
          /\ UNCHANGED <<trace, idx>>
    /\ UNCHANGED <<typology_key, elements, parameters, sel, sel0, clicks,
                   applied, warnings>>
    /\ UNCHANGED <<dateVars, extractVars, restVars>>

\* One round of the for loop of _select_elements (kind "Elements") or
\* _select_parameters (kind "Parameters") over names.
SelectOne(step, kind, names) ==
    /\ pc = step
    /\ idx <= Len(names)
    /\ IF typology_key \notin DOMAIN Typology
       THEN /\ Fail(step, "KeyError")
            /\ UNCHANGED <<idx, trace, warnings, applied, clicks, sel>>
       ELSE LET xpath == Get(Typology[typology_key][kind], names[idx])
            IN IF Unresolved(xpath)
               THEN /\ warnings' = Append(warnings, Ev(step, names[idx]))
                    /\ idx' = IF UnresolvedOutcome = "continue" THEN idx + 1
                              ELSE Len(names) + 1
                    /\ UNCHANGED <<pc, stepFailed, sfault, trace, applied,
                                   clicks, sel>>
               ELSE \/ \E ok \in BOOLEAN :
                         LET r == CheckedClick(Ctl(TRUE, "checkbox", sel[xpath], ok))
                         IN /\ trace' = Append(trace, Ev(step, names[idx]))
                            /\ Touched(xpath, r)
                            /\ IF r = "raised"
                               THEN /\ Fail(step, "WebDriverException")
                                    /\ UNCHANGED idx
                               ELSE /\ idx' = idx + 1
                                    /\ UNCHANGED <<pc, stepFailed, sfault>>
                            /\ UNCHANGED warnings
                    \/ /\ Fail(step, "TimeoutException")
                       /\ UNCHANGED <<idx, trace, warnings, applied, clicks, sel>>
    /\ UNCHANGED <<typology_key, elements, parameters, sel0>>
    /\ UNCHANGED <<dateVars, extractVars, restVars>>

\* The loop is over (or "if not self.elements: return").
SelectEnd(step, names) ==
    /\ pc = step
    /\ idx > Len(names)
    /\ Goes(step)
    /\ idx' = 1
    /\ UNCHANGED <<typology_key, elements, parameters, sel, sel0, clicks,
                   applied, trace, warnings>>
    /\ UNCHANGED <<dateVars, extractVars, restVars>>

SD_Element == SelectOne("elements", "Elements", elements)
SD_ElementsEnd == SelectEnd("elements", elements)
SD_Parameter == SelectOne("parameters", "Parameters", parameters)
SD_ParametersEnd == SelectEnd("parameters", parameters)

SD_Next == ClickButton("next", "next_button_xpath")

\* self._extract_table(wait, self.config.table_xpath,
\*                     self.config.pagination_next_xpath)
\* binds its second argument to pagination_next_xpath and its third to
\* table_xpath.
ExtractArgs ==
    [pagination_next_xpath |-> "table_xpath",
     table_xpath |-> "pagination_next_xpath"]

SD_CallExtract ==
    /\ pc = "extract_call"
    /\ epc = "idle"
    /\ epc' = "start"
    /\ pagination_next_xpath' = ExtractArgs.pagination_next_xpath
    /\ table_xpath' = ExtractArgs.table_xpath
    /\ pc' = "extract"
    /\ trace' = Append(trace, Ev("extract", ""))
    /\ UNCHANGED <<tbl, uiPage, headers, data, saved, obsLog, pagesRead,
                   nextClicks, efault>>
    /\ UNCHANGED <<typology_key, elements, parameters, idx, sel, sel0, clicks,
                   applied, warnings, stepFailed, sfault>>
    /\ UNCHANGED <<dateVars, restVars>>

SD_ExtractDone ==
    /\ pc = "extract"
    /\ \/ /\ epc = "returned"
          /\ Goes("extract")
       \/ /\ epc = "raised"
          /\ Fail("extract", efault)
    /\ UNCHANGED <<typology_key, elements, parameters, idx, sel, sel0, clicks,
                   applied, trace, warnings>>
    /\ UNCHANGED <<dateVars, extractVars, restVars>>

\* the inner except Exception of lines 153-154: logging.info(...), and
\* select_data goes on
MutConfirmExcept(exc) == Fail("confirm", exc)
ConfirmExcept(exc) == Goes("confirm")

\* try: confirm_button = wait.until(clickable); self.checked_click(...)
\* except Exception: logging.info(...)
SD_Confirm ==
    /\ pc = "confirm"
    /\ \/ \E s \in BOOLEAN, ok \in BOOLEAN :
            LET r == CheckedClick(Ctl(TRUE, "button", s, ok))
            IN /\ trace' = Append(trace, Ev("confirm", ""))
               /\ Touched("confirm_button_xpath", r)
               /\ IF r = "raised" THEN ConfirmExcept("WebDriverException")
                  ELSE Goes("confirm")
       \/ /\ UNCHANGED <<trace, applied, clicks, sel>>
          /\ ConfirmExcept("TimeoutException")
    /\ UNCHANGED <<typology_key, elements, parameters, idx, sel0, warnings>>
    /\ UNCHANGED <<dateVars, extractVars, restVars>>

NextSelectData ==
    \/ SD_Get
    \/ SD_Daily
    \/ SD_CallDate
    \/ SD_DateDone
    \/ SD_Typology
    \/ SD_Element
    \/ SD_ElementsEnd
    \/ SD_Parameter
    \/ SD_ParametersEnd
    \/ SD_Next
    \/ SD_CallExtract
    \/ SD_ExtractDone
    \/ SD_Confirm

InitSelectIdle ==
    /\ pc = "idle"
    /\ typology_key = "Inversor - (INVERSOR)"
    /\ elements = <<>>
    /\ parameters = <<>>
    /\ idx = 1
    /\ sel = [c \in Checkboxes |-> FALSE]
    /\ sel0 = sel
    /\ clicks = [c \in Checkboxes \cup Buttons |-> 0]
    /\ applied = [c \in Checkboxes \cup Buttons |-> 0]
    /\ trace = <<>>
    /\ warnings = <<>>
    /\ stepFailed = "none"
    /\ sfault = "none"

\* -------------------------------------------------------- download_data
\* Python's None, for an argument that was not supplied.
None == "None"
\* Whether Python takes a value for true: None and '' are not.
Truthy(v) == v # None /\ v # ""

\* A path: absolute or not, and its components.
Path(abs, parts) == [abs |-> abs, parts |-> parts]
\* None where a path is expected.
NoPath == Path(FALSE, <<>>)
\* os.path.join(os.path.expanduser('~'), 'Downloads')
HomeDownloads == Path(TRUE, <<"~", "Downloads">>)
\* os.path.join(a, b): b alone when b is absolute.
Join(a, b) == IF b.abs THEN b ELSE Path(a.abs, a.parts \o b.parts)
IsAbs(p) == p.abs

\* config.download_directory: None, an absolute or a relative directory.
Directories == {NoPath, Path(TRUE, <<"data">>), Path(FALSE, <<"data">>)}
default_filename == Path(FALSE, <<"QuickAnalysis.xlsx">>)

\* full_path of _wait_for_downloaded_file
FullPath(dir) ==
    Join(IF dir = NoPath THEN HomeDownloads ELSE dir, default_filename)

\* A pattern is a sequence of literal pieces and placeholders.
DefaultPattern ==
    <<"QuickAnalysis_", "{day}", "_", "{month}", "_", "{year}", ".xlsx">>
Patterns == {DefaultPattern, <<"{year}", "-", "{day}", ".xlsx">>}

\* What a caller passes for day, month and year.
DayArgs == {None, "", "15"}
MonthArgs == {None, "", "marzo"}
YearArgs == {None, "", "2024"}
\* time.strftime("%d"), ("%B"), ("%Y") on two days.
Dates == {[day |-> "02", month |-> "November", year |-> "2026"],
          [day |-> "31", month |-> "mayo", year |-> "2025"]}

\* a or b
MutOr(a, b) == b
Or(a, b) == IF Truthy(a) THEN a ELSE b

\* pattern.format(day=d, month=m, year=y)
Format(pattern, d, m, y) ==
    [i \in DOMAIN pattern |->
        CASE pattern[i] = "{day}" -> d
          [] pattern[i] = "{month}" -> m
          [] pattern[i] = "{year}" -> y
          [] OTHER -> pattern[i]]

\* _generate_filename(day, month, year)
GenerateFilename(pattern, args, date) ==
    Format(pattern, Or(args.day, date.day), Or(args.month, date.month),
           Or(args.year, date.year))

NoName == <<>>

\* A file: "absent", "stale" (a download left by an earlier run), "old" (a
\* renamed file left by an earlier run), "partial" (being written by the
\* browser), "complete", or "empty" (made by an append-mode open of a
\* missing path).
\* On Windows the writer holds the file and a second open is refused; on
\* POSIX it is not.
WriterLocks(os) == os = "windows"
\* os.rename onto an existing file: replaces it on POSIX, raises
\* FileExistsError on Windows.
RenameReplaces(os) == os = "posix"

\* with open(full_path, 'ab'): pass
OpenAppend(file, os) ==
    IF file = "partial" /\ WriterLocks(os) THEN "PermissionError" ELSE "ok"

\* while elapsed < timeout
MutPollAgain(e, timeout) == e <= timeout
PollAgain(e, timeout) == e < timeout

\* except PermissionError: sleep and poll again
MutOnPermissionError == "return"
OnPermissionError == "continue"

\* The source path after os.rename has moved the file.
MutSourceAfterRename(file) == file
SourceAfterRename(file) == "absent"

Poll(exists, open) == [exists |-> exists, open |-> open]

\* DownloadService.checked_click(element)
DownloadCheckedClick(ctl) ==
    IF ctl.selected THEN "skipped"
    ELSE IF ctl.clickOk THEN "clicked" ELSE "raised"

\* except Exception as e: logging.error(...); raise
DownloadRaise(exc) ==
    /\ dlpc' = "raised"
    /\ dlfault' = exc

InitDownloadConfig ==
    /\ download_directory \in Directories
    /\ max_download_wait \in 1..MaxWait
    /\ platform \in {"posix", "windows"}
    /\ srcFile \in {"absent", "stale"}
    /\ dstFile \in {"absent", "old"}
    /\ elapsed = 0
    /\ downloaded_file = NoPath
    /\ final_name = NoName
    /\ writer = "idle"
    /\ requested = FALSE
    /\ pollLog = <<>>
    /\ renameLog = <<>>
    /\ dlfault = "none"

InitDownloadIdle ==
    /\ dlpc = "idle"
    /\ download_directory = NoPath
    /\ max_download_wait = 1
    /\ renamed_filename_pattern = DefaultPattern
    /\ dlArgs = [day |-> None, month |-> None, year |-> None]
    /\ today = [day |-> "02", month |-> "November", year |-> "2026"]
    /\ platform = "posix"
    /\ srcFile = "absent"
    /\ dstFile = "absent"
    /\ elapsed = 0
    /\ downloaded_file = NoPath
    /\ final_name = NoName
    /\ writer = "idle"
    /\ requested = FALSE
    /\ pollLog = <<>>
    /\ renameLog = <<>>
    /\ dlfault = "none"

\* wait.until(presence table_check_xpath); download_button =
\* wait.until(clickable download_button_xpath); checked_click(download_button)
DL_Click ==
    /\ dlpc = "start"
    /\ \/ /\ DownloadRaise("TimeoutException")
          /\ UNCHANGED requested
       \/ \E s \in BOOLEAN, ok \in BOOLEAN :
            LET r == DownloadCheckedClick(Ctl(TRUE, "button", s, ok))
            IN IF r = "raised"
               THEN /\ DownloadRaise("WebDriverException")
                    /\ UNCHANGED requested
               ELSE /\ requested' = (r = "clicked")
                    /\ dlpc' = "poll"
                    /\ dlfault' = dlfault
    /\ UNCHANGED <<download_directory, max_download_wait,
                   renamed_filename_pattern, dlArgs, today, platform, elapsed,
                   downloaded_file, final_name, srcFile, dstFile, writer,
                   pollLog, renameLog>>
    /\ UNCHANGED outsideDownload

\* while elapsed < timeout: if os.path.exists(full_path): ... else:
\* time.sleep(interval); elapsed += interval
DL_Poll ==
    /\ dlpc = "poll"
    /\ PollAgain(elapsed, max_download_wait)
    /\ IF srcFile # "absent"
       THEN /\ dlpc' = "probe"
            /\ UNCHANGED <<elapsed, pollLog>>
       ELSE /\ elapsed' = elapsed + 1
            /\ pollLog' = Append(pollLog, Poll(FALSE, "none"))
            /\ UNCHANGED dlpc
    /\ UNCHANGED <<download_directory, max_download_wait,
                   renamed_filename_pattern, dlArgs, today, platform,
                   downloaded_file, final_name, srcFile, dstFile, writer,
                   requested, renameLog, dlfault>>
    /\ UNCHANGED outsideDownload

\* try: with open(full_path, 'ab'): pass; return full_path
\* except PermissionError: time.sleep(interval); elapsed += interval
DL_Probe ==
    /\ dlpc = "probe"
    /\ LET o == OpenAppend(srcFile, platform)
       IN /\ pollLog' = Append(pollLog, Poll(TRUE, o))
          /\ IF o = "ok" \/ OnPermissionError = "return"
             THEN /\ downloaded_file' = FullPath(download_directory)
                  /\ srcFile' = IF srcFile = "absent" THEN "empty" ELSE srcFile
                  /\ dlpc' = "waited"
                  /\ UNCHANGED elapsed
             ELSE /\ elapsed' = elapsed + 1
                  /\ dlpc' = "poll"
                  /\ UNCHANGED <<downloaded_file, srcFile>>
    /\ UNCHANGED <<download_directory, max_download_wait,
                   renamed_filename_pattern, dlArgs, today, platform,
                   final_name, dstFile, writer, requested, renameLog, dlfault>>
    /\ UNCHANGED outsideDownload

\* the while loop ends: return None
DL_WaitTimeout ==
    /\ dlpc = "poll"
    /\ ~PollAgain(elapsed, max_download_wait)
    /\ downloaded_file' = NoPath
    /\ dlpc' = "waited"
    /\ UNCHANGED <<download_directory, max_download_wait,
                   renamed_filename_pattern, dlArgs, today, platform, elapsed,
                   final_name, srcFile, dstFile, writer, requested, pollLog,
                   renameLog, dlfault>>
    /\ UNCHANGED outsideDownload

\* if not downloaded_file: raise FileNotFoundError(...)
DL_NotFound ==
    /\ dlpc = "waited"
    /\ downloaded_file = NoPath
    /\ DownloadRaise("FileNotFoundError")
    /\ UNCHANGED <<download_directory, max_download_wait,
                   renamed_filename_pattern, dlArgs, today, platform, elapsed,
                   downloaded_file, final_name, srcFile, dstFile, writer,
                   requested, pollLog, renameLog>>
    /\ UNCHANGED outsideDownload

\* final_name = self._generate_filename(day, month, year)
DL_Name ==
    /\ dlpc = "waited"
    /\ downloaded_file # NoPath
    /\ final_name' = GenerateFilename(renamed_filename_pattern, dlArgs, today)
    /\ dlpc' = "rename"
    /\ UNCHANGED <<download_directory, max_download_wait,
                   renamed_filename_pattern, dlArgs, today, platform, elapsed,
                   downloaded_file, srcFile, dstFile, writer, requested,
                   pollLog, renameLog, dlfault>>
    /\ UNCHANGED outsideDownload

\* old_file_path and new_file_path of FileManagerUtil.rename_file
OldFilePath(old_name, dir) ==
    Join(IF dir = NoPath THEN HomeDownloads ELSE dir, old_name)
NewFilePath(new_name, dir) ==
    IF IsAbs(new_name) THEN new_name
    ELSE Join(IF dir = NoPath THEN HomeDownloads ELSE dir, new_name)

\* The file os.rename finds at old_file_path: the downloaded file when
\* that is the polled path, and nothing at any other path.
FileAt(p) == IF p = FullPath(download_directory) THEN srcFile ELSE "absent"

\* FileManagerUtil.rename_file(downloaded_file, final_name,
\* config.download_directory): os.rename(old_file_path, new_file_path); its
\* exceptions are logged and raised again, here and in download_data
DL_Rename ==
    /\ dlpc = "rename"
    /\ LET old == OldFilePath(downloaded_file, download_directory)
           found == FileAt(old)
           new == NewFilePath(Path(FALSE, <<final_name>>), download_directory)
       IN /\ renameLog' = Append(renameLog, [src |-> found, dst |-> dstFile,
                                            old |-> old, new |-> new])
          /\ IF found = "absent"
             THEN /\ DownloadRaise("FileNotFoundError")
                  /\ UNCHANGED <<srcFile, dstFile>>
             ELSE IF dstFile # "absent" /\ ~RenameReplaces(platform)
             THEN /\ DownloadRaise("FileExistsError")
                  /\ UNCHANGED <<srcFile, dstFile>>
             ELSE /\ dstFile' = found
                  /\ srcFile' = SourceAfterRename(found)
                  /\ dlpc' = "done"
                  /\ dlfault' = dlfault
    /\ UNCHANGED <<download_directory, max_download_wait,
                   renamed_filename_pattern, dlArgs, today, platform, elapsed,
                   downloaded_file, final_name, writer, requested, pollLog>>
    /\ UNCHANGED outsideDownload

\* The positions of download_data at which the model follows the files.
Running == {"poll", "probe", "waited", "rename"}

\* The browser starts to write the file whose download was asked for.
FS_WriterStart ==
    /\ dlpc \in Running
    /\ requested
    /\ writer = "idle"
    /\ srcFile = "absent"
    /\ writer' = "writing"
    /\ srcFile' = "partial"
    /\ UNCHANGED <<dlpc, download_directory, max_download_wait,
                   renamed_filename_pattern, dlArgs, today, platform, elapsed,
                   downloaded_file, final_name, dstFile, requested, pollLog,
                   renameLog, dlfault>>
    /\ UNCHANGED outsideDownload

\* The browser has written the whole file (wherever the file is by now).
FS_WriterFinish ==
    /\ dlpc \in Running
    /\ writer = "writing"
    /\ writer' = "done"
    /\ srcFile' = IF srcFile = "partial" THEN "complete" ELSE srcFile
    /\ dstFile' = IF dstFile = "partial" THEN "complete" ELSE dstFile
    /\ UNCHANGED <<dlpc, download_directory, max_download_wait,
                   renamed_filename_pattern, dlArgs, today, platform, elapsed,
                   downloaded_file, final_name, requested, pollLog, renameLog,
                   dlfault>>
    /\ UNCHANGED outsideDownload

\* Another process removes the file between two steps of download_data.
FS_Vanish ==
    /\ dlpc \in {"probe", "waited", "rename"}
    /\ srcFile \in {"stale", "complete", "empty"}
    /\ srcFile' = "absent"
    /\ UNCHANGED <<dlpc, download_directory, max_download_wait,
                   renamed_filename_pattern, dlArgs, today, platform, elapsed,
                   downloaded_file, final_name, dstFile, writer, requested,
                   pollLog, renameLog, dlfault>>
    /\ UNCHANGED outsideDownload

NextDownload ==
    \/ DL_Click
    \/ DL_Poll
    \/ DL_Probe
    \/ DL_WaitTimeout
    \/ DL_NotFound
    \/ DL_Name
    \/ DL_Rename
    \/ FS_WriterStart
    \/ FS_WriterFinish
    \/ FS_Vanish

\* The steps of download_data itself, without those of the browser's writer
\* and of other processes.
DownloadSteps ==
    \/ DL_Click
    \/ DL_Poll
    \/ DL_Probe
    \/ DL_WaitTimeout
    \/ DL_NotFound
    \/ DL_Name
    \/ DL_Rename

\* ------------------------------------- WebDriverManager and init_workflow
\* END_DATE = datetime(2025, 5, 1): year, month, day, second of the day.
END_DATE == <<2025, 5, 1, 0>>
\* datetime.now() at the start of a run.
Nows == {<<2025, 3, 1, 0>>, <<2025, 4, 30, 1>>, <<2025, 5, 1, 0>>,
         <<2025, 5, 1, 1>>}

\* a > b for two datetimes
MutLater(a, b) == a[1] > b[1]
RECURSIVE LaterFrom(_, _, _)
LaterFrom(a, b, i) ==
    IF i > Len(a) THEN FALSE
    ELSE IF a[i] # b[i] THEN a[i] > b[i]
    ELSE LaterFrom(a, b, i + 1)
Later(a, b) == LaterFrom(a, b, 1)

NoService == [day |-> 0, month |-> 0, year |-> 0, typology_key |-> ""]

\* A program ends, by return or by an exception (SystemExit too).
Ended(p) == p \in {"done", "raised"}

InitSession ==
    /\ usage \in {"main", "with"}
    /\ now \in Nows
    /\ mpc = IF usage = "main" THEN "check_date" ELSE "enter"
    /\ driver = "none"
    /\ service = NoService
    /\ mfault = "none"

InitSessionIdle ==
    /\ usage = "none"
    /\ now = <<2025, 4, 30, 1>>
    /\ mpc = "idle"
    /\ driver = "none"
    /\ service = NoService
    /\ mfault = "none"

SessionRaise(exc) ==
    /\ mpc' = "raised"
    /\ mfault' = exc

\* check_date_validate(): if now > END_DATE: print; sleep; sys.exit()
M_CheckDate ==
    /\ mpc = "check_date"
    /\ IF Later(now, END_DATE)
       THEN SessionRaise("SystemExit")
       ELSE /\ mpc' = "init_driver"
            /\ mfault' = mfault
    /\ UNCHANGED <<usage, now, driver, service>>
    /\ UNCHANGED outsideSession

\* WebDriverManager.init_driver(): self.driver = self._create_driver();
\* its exceptions are logged and raised again
InitDriver(next) ==
    \/ /\ driver' = "live"
       /\ mpc' = next
       /\ mfault' = mfault
    \/ /\ SessionRaise("WebDriverException")
       /\ UNCHANGED driver

\* web = WebDriverManager(browser='chrome', headless=False);
\* web_driver = web.init_driver()
M_InitDriver ==
    /\ mpc = "init_driver"
    /\ InitDriver("navigate")
    /\ UNCHANGED <<usage, now, service>>
    /\ UNCHANGED outsideSession

\* web_driver.get(...); the three wait.until(clickable).click() of lines
\* 42-55
M_Navigate ==
    /\ mpc = "navigate"
    /\ \/ /\ mpc' = "construct"
          /\ mfault' = mfault
       \/ SessionRaise("TimeoutException")
       \/ SessionRaise("WebDriverException")
    /\ UNCHANGED <<usage, now, driver, service>>
    /\ UNCHANGED outsideSession

\* The locators of DataSelect._extract_table(wait, '', XPATHS.get('Table')):
\* '' is bound to pagination_next_xpath, the table's XPATH to table_xpath.
MutMainExtractArgs ==
    [pagination_next_xpath |-> "pagination_next_xpath",
     table_xpath |-> "table_xpath"]
MainExtractArgs ==
    [pagination_next_xpath |-> "", table_xpath |-> "table_xpath"]

\* now = datetime.now(); DataSelect = DataSelectionService(None, None, None,
\* 10, int(now.day)-1, now.month, now.year, typology_key='Dominicana');
\* DataSelect._extract_table(wait, '', XPATHS.get('Table'))
M_CallExtract ==
    /\ mpc = "construct"
    /\ epc = "idle"
    /\ service' = [day |-> now[3] - 1, month |-> now[2], year |-> now[1],
                   typology_key |-> "Dominicana"]
    /\ epc' = "start"
    /\ pagination_next_xpath' = MainExtractArgs.pagination_next_xpath
    /\ table_xpath' = MainExtractArgs.table_xpath
    /\ mpc' = "extract"
    /\ UNCHANGED <<usage, now, driver, mfault>>
    /\ UNCHANGED <<tbl, uiPage, headers, data, saved, obsLog, pagesRead,
                   nextClicks, efault>>
    /\ UNCHANGED <<dateVars, selectVars, downloadVars>>

\* _extract_table returns or raises; init_workflow ends there
M_ExtractDone ==
    /\ mpc = "extract"
    /\ \/ /\ epc = "returned"
          /\ mpc' = "done"
          /\ mfault' = mfault
       \/ /\ epc = "raised"
          /\ SessionRaise(efault)
    /\ UNCHANGED <<usage, now, driver, service>>
    /\ UNCHANGED outsideSession

\* WebDriverManager.__enter__: self.init_driver(); return self.driver
W_Enter ==
    /\ mpc = "enter"
    /\ InitDriver("body")
    /\ UNCHANGED <<usage, now, service>>
    /\ UNCHANGED outsideSession

\* The block of the with statement: it ends or it raises.
W_Body ==
    /\ mpc = "body"
    /\ mpc' = "exit"
    /\ mfault' \in {"none", "TimeoutException"}
    /\ UNCHANGED <<usage, now, driver, service>>
    /\ UNCHANGED outsideSession

\* if self.driver: self.driver.quit(); self.driver = None
CloseDriver(d) == IF d = "live" THEN "quit" ELSE d

\* WebDriverManager.__exit__: self.close_driver(); the exception of the
\* block, if any, goes on to the caller
W_Exit ==
    /\ mpc = "exit"
    /\ driver' = CloseDriver(driver)
    /\ mpc' = IF mfault = "none" THEN "done" ELSE "raised"
    /\ UNCHANGED <<usage, now, service, mfault>>
    /\ UNCHANGED outsideSession

NextSession ==
    \/ M_CheckDate
    \/ M_InitDriver
    \/ M_Navigate
    \/ M_CallExtract
    \/ M_ExtractDone
    \/ W_Enter
    \/ W_Body
    \/ W_Exit

\* The services idle while another one is checked.
InitRestIdle == InitDownloadIdle /\ InitSessionIdle

\* ------------------------------------------------------- specifications
InitDateIdle ==
    /\ dpc = "idle"
    /\ day = 15
    /\ month = Word("febrero", FALSE)
    /\ year = DefaultYear
    /\ wMonth = 2
    /\ wYear = DefaultYear
    /\ wKind = "normal"
    /\ wCaps = FALSE
    /\ w0 = <<wMonth, wYear>>
    /\ current_text = NoText
    /\ current_year = 0
    /\ yearClicks = 0
    /\ monthClicks = 0
    /\ dayClicked = NoDay
    /\ dfault = "none"

InitExtractIdle ==
    /\ epc = "idle"
    /\ table_xpath = "table_xpath"
    /\ pagination_next_xpath = "pagination_next_xpath"
    /\ tbl = [head |-> <<TRUE, TRUE>>, pages |-> <<Uniform(4)>>]
    /\ uiPage = 1
    /\ headers = <<>>
    /\ data = <<>>
    /\ saved = NoFile
    /\ obsLog = <<>>
    /\ pagesRead = <<>>
    /\ nextClicks = 0
    /\ efault = "none"

NextDate ==
    \/ DP_Open
    \/ DP_ReadSwitch
    \/ DP_YearStepPrev
    \/ DP_YearReread
    \/ DP_YearUnsupported
    \/ DP_YearAligned
    \/ DP_MonthStepPrev
    \/ DP_MonthReread
    \/ DP_MonthAligned
    \/ DP_ClickDay

NextExtract ==
    \/ EX_WaitTable
    \/ EX_ReadPage
    \/ EX_Paginate
    \/ EX_Save

\* select_date called on its own
InitDate ==
    /\ InitDateConfig
    /\ dpc = "open"
    /\ InitExtractIdle
    /\ InitSelectIdle
    /\ InitRestIdle

SpecDate == InitDate /\ [][NextDate]_vars
SpecDateFair == SpecDate /\ WF_vars(NextDate)

\* select_date called on a widget that is at its start date: its "prev"
\* control leaves the shown month where it is
InitDateStuck ==
    /\ dpc = "open"
    /\ day \in DaySet
    /\ month \in {Word(MonthName[m], up) : m \in 1..12, up \in BOOLEAN}
    /\ year \in Years
    /\ wMonth \in 1..12
    /\ wYear \in Years
    /\ wKind = "stuck"
    /\ wCaps = TRUE
    /\ w0 = <<wMonth, wYear>>
    /\ current_text = NoText
    /\ current_year = 0
    /\ yearClicks = 0
    /\ monthClicks = 0
    /\ dayClicked = NoDay
    /\ dfault = "none"
    /\ InitExtractIdle
    /\ InitSelectIdle
    /\ InitRestIdle

SpecDateStuck == InitDateStuck /\ [][NextDate]_vars /\ WF_vars(NextDate)

\* _extract_table called on its own, with the table locator and the
\* next-page locator, or with '' for the latter
InitExtract ==
    /\ InitDateIdle
    /\ InitExtractConfig
    /\ epc = "start"
    /\ table_xpath = "table_xpath"
    /\ pagination_next_xpath \in {"pagination_next_xpath", ""}
    /\ InitSelectIdle
    /\ InitRestIdle

SpecExtract == InitExtract /\ [][NextExtract]_vars
\* _extract_table runs on: a step it can take is eventually taken.
SpecExtractFair == SpecExtract /\ WF_vars(NextExtract)

\* select_data on a page whose calendar shows a month after the target, in
\* the target's year or the year after it, or a year before the target's
DateCases ==
    {<<3, DefaultYear, 4, DefaultYear>>, <<11, DefaultYear - 1, 1, DefaultYear>>,
     <<3, DefaultYear, 6, DefaultYear - 1>>}
\* The parameter lists a caller configures here.
ParameterLists ==
    {<<>>, <<"CALIDAD COM">>, <<"POTENCIA X", "CALIDAD COM">>,
     <<"CALIDAD COM", "CALIDAD COM">>}

InitSelect ==
    /\ pc = "get"
    /\ typology_key \in TypologyKeys
    /\ elements \in SeqsFrom0(ElementNames, MaxNames)
    /\ parameters \in ParameterLists
    /\ idx = 1
    /\ sel \in [Checkboxes -> BOOLEAN]
    /\ sel0 = sel
    /\ clicks = [c \in Checkboxes \cup Buttons |-> 0]
    /\ applied = [c \in Checkboxes \cup Buttons |-> 0]
    /\ trace = <<>>
    /\ warnings = <<>>
    /\ stepFailed = "none"
    /\ sfault = "none"
    /\ dpc = "idle"
    /\ day = 15
    /\ \E c \in DateCases :
          /\ month = Word(MonthName[c[1]], FALSE)
          /\ year = c[2]
          /\ wMonth = c[3]
          /\ wYear = c[4]
    /\ wKind = "normal"
    /\ wCaps = TRUE
    /\ w0 = <<wMonth, wYear>>
    /\ current_text = NoText
    /\ current_year = 0
    /\ yearClicks = 0
    /\ monthClicks = 0
    /\ dayClicked = NoDay
    /\ dfault = "none"
    /\ InitExtractIdle
    /\ InitRestIdle

NextSelect == NextSelectData \/ NextDate \/ NextExtract

SpecSelect == InitSelect /\ [][NextSelect]_vars

\* download_data called on its own, with no date or with a whole date
DownloadArgs ==
    {[day |-> None, month |-> None, year |-> None],
     [day |-> "15", month |-> "marzo", year |-> "2024"]}

InitDownload ==
    /\ InitDownloadConfig
    /\ dlpc = "start"
    /\ renamed_filename_pattern = DefaultPattern
    /\ dlArgs \in DownloadArgs
    /\ today = [day |-> "02", month |-> "November", year |-> "2026"]
    /\ InitDateIdle
    /\ InitExtractIdle
    /\ InitSelectIdle
    /\ InitSessionIdle

SpecDownload == InitDownload /\ [][NextDownload]_vars
\* download_data runs on: a step it can take is eventually taken, whatever
\* the writer and the other processes do or leave undone.
SpecDownloadFair == SpecDownload /\ WF_vars(DownloadSteps)

\* _generate_filename called on a downloaded file, for every pattern, date
\* and choice of arguments
InitFilename ==
    /\ dlpc = "waited"
    /\ download_directory \in Directories
    /\ max_download_wait = 1
    /\ renamed_filename_pattern \in Patterns
    /\ dlArgs \in [day : DayArgs, month : MonthArgs, year : YearArgs]
    /\ today \in Dates
    /\ platform = "posix"
    /\ srcFile = "complete"
    /\ dstFile = "absent"
    /\ elapsed = 0
    /\ downloaded_file = FullPath(download_directory)
    /\ final_name = NoName
    /\ writer = "done"
    /\ requested = TRUE
    /\ pollLog = <<Poll(TRUE, "ok")>>
    /\ renameLog = <<>>
    /\ dlfault = "none"
    /\ InitDateIdle
    /\ InitExtractIdle
    /\ InitSelectIdle
    /\ InitSessionIdle

NextFilename ==
    \/ DL_Name
    \/ DL_Rename

SpecFilename == InitFilename /\ [][NextFilename]_vars

\* init_workflow, and a with WebDriverManager(...) block, on their own
InitWorkflow ==
    /\ InitSession
    /\ InitDateIdle
    /\ InitExtractConfig
    /\ epc = "idle"
    /\ table_xpath = "table_xpath"
    /\ pagination_next_xpath = "pagination_next_xpath"
    /\ InitSelectIdle
    /\ InitDownloadIdle

NextWorkflow == NextSession \/ NextExtract

SpecWorkflow == InitWorkflow /\ [][NextWorkflow]_vars

\* ------------------------------------------------- claims on select_date
MonthIndex(w) == CHOOSE m \in 1..12 : MonthName[m] = w
EnvFaults == {"TimeoutException", "NoSuchElementException"}

\* C8: once the year read from the header is smaller than the target year,
\* the next step of select_date raises NotImplementedError without
\* activating "prev" or clicking a day, and nothing is clicked after a raise.
C8_ForwardYearFailsFast ==
    [][ /\ (dpc = "year_loop" /\ current_year < year)
           => /\ dpc' = "raised"
              /\ dfault' = "NotImplementedError"
              /\ UNCHANGED <<yearClicks, monthClicks, dayClicked, wMonth, wYear>>
        /\ dpc = "raised"
           => UNCHANGED <<dpc, yearClicks, monthClicks, dayClicked, wMonth, wYear>>
      ]_vars

C8_Witness ==
    /\ dpc = "raised"
    /\ dfault = "NotImplementedError"
    /\ current_year < year
    /\ dayClicked = NoDay

\* The target lies at or before the month the widget first shows, the
\* target month has the target day, and the header shows month and year.
ReachableBack ==
    /\ wKind = "normal"
    /\ MonthsBack(w0[1], w0[2], MonthIndex(month.w), year) >= 0
    /\ day \in 1..DaysIn(MonthIndex(month.w), year)

Committed ==
    /\ dpc = "returned"
    /\ dayClicked = <<day, MonthIndex(month.w), year>>

\* C9: for a target reachable by "prev" alone, select_date ends with the
\* day cell of the target month clicked, unless a wait of the browser fails;
\* it activates "prev" no more often than there are months between the first
\* shown month and the target.
C9_BackwardTargetCommitted ==
    /\ [](ReachableBack =>
            /\ yearClicks + monthClicks
                 <= MonthsBack(w0[1], w0[2], MonthIndex(month.w), year)
            /\ dpc = "returned" => Committed
            /\ dpc = "raised" => dfault \in EnvFaults)
    /\ <>(~ReachableBack \/ Committed \/ dfault \in EnvFaults)

C9_Witness ==
    /\ ReachableBack
    /\ Committed
    /\ yearClicks > 0
    /\ monthClicks > 0

\* Scenario A of the specification.
ScenarioA ==
    /\ day = 15
    /\ month = Word("marzo", FALSE)
    /\ year = 2025
    /\ w0 = <<2, 2025>>
    /\ wKind = "normal"

C11_Original == <>(dpc \in {"returned", "raised"})

\* ---------------------------------------------- claims on _extract_table
Last(q) == q[Len(q)]

\* The stripped rows of pages 1..n in page-then-row order, from the table
\* itself.
RECURSIVE RowsOfPages(_)
RowsOfPages(n) ==
    IF n = 0 THEN <<>>
    ELSE RowsOfPages(n - 1) \o
         [r \in DOMAIN tbl.pages[n] |->
             [c \in 1..tbl.pages[n][r] |-> [pad |-> FALSE, body |-> <<n, r, c>>]]]

\* The pagination loop has ended (the file may or may not have been written).
LoopEnded ==
    \/ epc \in {"frame", "returned"}
    \/ epc = "raised" /\ efault \in {"ValueError", "OSError"}

\* The next-page control was enabled on every page but the last, and absent
\* or disabled on the last.
OrdinaryPagination ==
    /\ pagination_next_xpath = "pagination_next_xpath"
    /\ Len(obsLog) = Len(tbl.pages)
    /\ \A i \in 1..(Len(obsLog) - 1) : obsLog[i] = CtlEnabled
    /\ Last(obsLog) \in {CtlAbsent, CtlDisabled}

\* C5: when the loop has ended on a table of N pages with an ordinary
\* next-page control, data holds the rows of pages 1..N in page-then-row
\* order; when the first lookup found no next-page control, data holds the
\* rows of the first page.
C5_RowsInPageOrder ==
    LoopEnded =>
        /\ OrdinaryPagination => data = RowsOfPages(Len(tbl.pages))
        /\ obsLog = <<CtlAbsent>> => data = RowsOfPages(1)

\* Scenario B: pages of 10, 10 and 4 rows, "disabled" on the third page.
C5_Witness ==
    /\ epc = "returned"
    /\ tbl.pages = <<Uniform(10), Uniform(10), Uniform(4)>>
    /\ OrdinaryPagination
    /\ Last(obsLog) = CtlDisabled
    /\ Len(data) = 24
    /\ saved.written

\* C6 as stated: the loop ends after a lookup only when the control found
\* is absent, unclickable or disabled.
C6_Original ==
    (epc = "frame" /\ obsLog # <<>>) =>
        \/ ~Last(obsLog).present
        \/ ~Last(obsLog).clickOk
        \/ Last(obsLog).class = "page-item disabled"

\* The number of cells of each row read, from the table itself.
RECURSIVE WidthsRead(_)
WidthsRead(ps) ==
    IF ps = <<>> THEN <<>>
    ELSE tbl.pages[Head(ps)] \o WidthsRead(Tail(ps))

\* C7 as stated: no row is refused for its width, and every row of the
\* file has as many cells as it had in the table.
C7_Original ==
    /\ efault # "ValueError"
    /\ (saved.written /\ table_xpath = "table_xpath") =>
          \A i \in DOMAIN saved.rows :
              Len(saved.rows[i]) = WidthsRead(pagesRead)[i]

\* C12: _extract_table always ends, also with a next-page control that
\* stays present and never shows "disabled": after a bounded number of pages
\* it returns or raises.
C12_Original == <>(epc \in {"returned", "raised"})

\* ------------------------------------------------- claims on select_data
IsPrefix(a, b) == Len(a) <= Len(b) /\ \A i \in DOMAIN a : a[i] = b[i]
InSeq(e, q) == \E i \in DOMAIN q : q[i] = e

KeyKnown == typology_key \in DOMAIN Typology
\* The names of a configured list that the dictionary of the typology has.
Resolving(kind, names) ==
    LET has(n) == KeyKnown /\ n \in DOMAIN Typology[typology_key][kind]
    IN SelectSeq(names, has)
NotResolving(kind, names) ==
    LET lacks(n) == ~(KeyKnown /\ n \in DOMAIN Typology[typology_key][kind])
    IN SelectSeq(names, lacks)
Events(step, names) == [i \in DOMAIN names |-> Ev(step, names[i])]

\* The UI actions of a whole run, in the order of the claim.
ExpectedTrace ==
    <<Ev("get", ""), Ev("daily", ""), Ev("date", ""), Ev("typology", "")>>
    \o Events("elements", Resolving("Elements", elements))
    \o Events("parameters", Resolving("Parameters", parameters))
    \o <<Ev("next", ""), Ev("extract", ""), Ev("confirm", "")>>

\* C1: the UI actions issued so far are the first actions of the order
\* get, daily view, date, category, elements, parameters, proceed,
\* extraction, confirmation; a finished run has issued them all (the last
\* one unless its wait failed); date selection starts after the daily-view
\* step, the category is selected after select_date returned, extraction
\* starts after the proceed step and confirmation after it returned.
C1_StepsInOrder ==
    /\ IsPrefix(trace, ExpectedTrace)
    /\ pc = "done" => Len(trace) >= Len(ExpectedTrace) - 1
    /\ dpc # "idle" => applied["daily_button_xpath"] = 1
    /\ InSeq(Ev("typology", ""), trace) => dpc = "returned"
    /\ epc # "idle" => applied["next_button_xpath"] = 1
    /\ InSeq(Ev("confirm", ""), trace) => epc = "returned"

C1_Witness ==
    /\ pc = "done"
    /\ trace = ExpectedTrace
    /\ Len(Resolving("Elements", elements)) = 2
    /\ Len(Resolving("Parameters", parameters)) >= 1

\* C2: a step that raises leaves select_data failed with the exception
\* raised to the caller; an exception of select_date or _extract_table is
\* raised on without another UI action; nothing happens after the failure.
C2_FailureEndsRun ==
    [][ /\ stepFailed' # "none" => (pc' = "failed" /\ sfault' # "none")
        /\ (pc = "date" /\ dpc = "raised")
              => (pc' = "failed" /\ sfault' = dfault /\ trace' = trace)
        /\ (pc = "extract" /\ epc = "raised")
              => (pc' = "failed" /\ sfault' = efault /\ trace' = trace)
        /\ pc = "failed" => UNCHANGED vars
      ]_vars

C2_Witness ==
    /\ pc = "failed"
    /\ stepFailed = "extract"
    /\ sfault = "TimeoutException"

NamesOf(step, q) ==
    LET at(e) == e.step = step
        es == SelectSeq(q, at)
    IN [i \in DOMAIN es |-> es[i].name]

StepsAfter(step) ==
    IF step = "elements"
    THEN {"parameters", "next", "extract_call", "extract", "confirm", "done"}
    ELSE {"next", "extract_call", "extract", "confirm", "done"}

\* The names the loop of the step is through with.
Handled(step, names) ==
    IF pc = step THEN SubSeq(names, 1, idx - 1)
    ELSE IF pc \in StepsAfter(step) THEN names ELSE <<>>

LoopKeepsGoing(step, kind, names) ==
    /\ pc # "failed" =>
          /\ NamesOf(step, trace) = Resolving(kind, Handled(step, names))
          /\ NamesOf(step, warnings) = NotResolving(kind, Handled(step, names))
    /\ (pc = "failed" /\ stepFailed = step) =>
          names[idx] \in DOMAIN Typology[typology_key][kind]

C4_ToggleIdempotent ==
    \A x \in Checkboxes :
        /\ (~sel0[x] /\ applied[x] >= 1) => (clicks[x] = 1 /\ sel[x])
        /\ sel0[x] => (clicks[x] = 0 /\ sel[x])

C4_Witness ==
    \E x \in Checkboxes : ~sel0[x] /\ applied[x] = 2 /\ clicks[x] = 1 /\ sel[x]

\* ------------------------------------------------ claims on download_data
\* A poll at which the path existed and the append-mode open succeeded.
Opened(e) == e.exists /\ e.open = "ok"

\* C13: _wait_for_downloaded_file returns the expected path only at a poll
\* where the path existed and the append-mode open succeeded; every poll where
\* the path was missing or the open was refused returned nothing and was
\* followed by another poll or by the timeout; the first poll at which the
\* file could be opened returned the path; there are no more polls than the
\* timeout allows.
C13_ProbeGatesReturn ==
    /\ Len(pollLog) <= max_download_wait
    /\ \A i \in 1..(Len(pollLog) - 1) : ~Opened(pollLog[i])
    /\ downloaded_file # NoPath =>
          /\ pollLog # <<>>
          /\ Opened(Last(pollLog))
          /\ downloaded_file = FullPath(download_directory)
    /\ (pollLog # <<>> /\ Opened(Last(pollLog))) =>
          /\ downloaded_file = FullPath(download_directory)
          /\ dlpc \notin {"poll", "probe"}
    /\ (pollLog # <<>> /\ ~Opened(Last(pollLog))) =>
          /\ downloaded_file = NoPath
          /\ elapsed = Len(pollLog)
          /\ dlpc \in {"poll", "probe", "waited", "raised"}
    /\ (dlpc = "waited" /\ downloaded_file = NoPath) =>
          elapsed = max_download_wait

\* Scenario C: two polls refused by the writer's lock, the third opens.
C13_Witness ==
    /\ dlpc = "done"
    /\ pollLog = <<Poll(TRUE, "PermissionError"), Poll(TRUE, "PermissionError"),
                   Poll(TRUE, "ok")>>
    /\ dstFile = "complete"

\* The wait ended by its timeout and download_data raised for it.
WaitTimedOut ==
    /\ dlpc = "raised"
    /\ downloaded_file = NoPath
    /\ elapsed = max_download_wait
    /\ renameLog = <<>>
NeverAppeared == \A i \in DOMAIN pollLog : ~pollLog[i].exists

\* C14 as stated: after a timeout, the outcome tells whether the file never
\* appeared (FileNotFoundError) or existed and stayed locked (another
\* outcome).
C14_Original ==
    WaitTimedOut => (NeverAppeared <=> dlfault = "FileNotFoundError")

C16_Original ==
    /\ \A i \in DOMAIN renameLog : renameLog[i].src # "partial"
    /\ downloaded_file = NoPath => renameLog = <<>>

\* C17 as stated: a rename that met an existing destination or a missing
\* source was the only rename, download_data raised its error, and the
\* destination still holds what it held.
C17_Original ==
    /\ Len(renameLog) <= 1
    /\ \A i \in DOMAIN renameLog :
          (renameLog[i].src = "absent" \/ renameLog[i].dst # "absent") =>
              /\ dlpc = "raised"
              /\ dlfault \in {"FileNotFoundError", "FileExistsError"}
              /\ dstFile = renameLog[i].dst

\* The name has been generated.
Named == dlpc \in {"rename", "done", "raised"} /\ final_name # NoName
\* A value the code takes as supplied.
Supplied(v) == v \notin {None, ""}

C19_ConfirmBestEffort ==
    /\ [](pc = "confirm" => epc = "returned")
    /\ [][pc = "confirm" => (pc' = "done" /\ sfault' = "none"
                                /\ stepFailed' = "none")]_vars

\* select_data has ended without the confirmation control ever having been
\* clickable.
C19_Witness ==
    /\ pc = "done"
    /\ sfault = "none"
    /\ epc = "returned"
    /\ applied["confirm_button_xpath"] = 0
    /\ \A i \in DOMAIN trace : trace[i].step # "confirm"
    /\ \E i \in DOMAIN trace : trace[i].step = "extract"

\* ------------------------------------------- claims on the driver session
\* C20 as stated: when a workflow that initialized a driver has ended, by
\* return or by an exception, the driver has been quit.
C20_Original == Ended(mpc) => driver # "live"

\* ----------------------------------- claims on the locators of extraction
\* C21 as stated: while select_data runs _extract_table, the rows are read
\* from the element found under config.table_xpath and the next-page control
\* is looked up under config.pagination_next_xpath.
C21_Original ==
    (pc = "extract" /\ epc # "idle") =>
        /\ ElementAt(table_xpath) = "TABLE"
        /\ ElementAt(pagination_next_xpath) = "NEXT"

\* ------------------------------------ claims on the month of select_date
\* The header the widget shows, without regard to capitals, contains the
\* target month name.
ShowsTargetMonth ==
    \E i \in DOMAIN HeaderText(wMonth, wYear, wKind, wCaps) :
        /\ HeaderText(wMonth, wYear, wKind, wCaps)[i].kind = "word"
        /\ HeaderText(wMonth, wYear, wKind, wCaps)[i].w = month.w

\* C22: whenever select_date clicks the day cell, the header text read last
\* is the header the widget shows and contains the target month name, capital
\* letters or not, so the day is clicked in the target month; and "prev" is
\* never activated by the month loop while the header shows the target month,
\* however the header and the target are capitalised.
C22_DayOnlyInTargetMonth ==
    /\ [][dayClicked' # dayClicked =>
            /\ \E i \in DOMAIN current_text :
                  current_text[i].kind = "word" /\ current_text[i].w = month.w
            /\ ShowsTargetMonth
            /\ dayClicked'[2] = MonthIndex(month.w)]_vars
    /\ [][monthClicks' # monthClicks => ~ShowsTargetMonth]_vars

\* A target given with a capital letter on a widget that shows capitals:
\* the month loop went back to the target month and the day was clicked.
C22_Witness ==
    /\ dpc = "returned"
    /\ month.up
    /\ wCaps
    /\ monthClicks > 0
    /\ dayClicked[2] = MonthIndex(month.w)

\* C23 as stated: whenever the day cell has been clicked and the header
\* read last carries a 4-digit year, that year is the target year.
C23_Original ==
    (dayClicked # NoDay /\ YearMatch(current_text) # 0) =>
        YearMatch(current_text) = year

\* --------------------------------- claims on the loop of _extract_table
\* C24 as stated: between the reading of one page and the reading of the
\* next the next-page control is clicked exactly once, whatever it reports
\* for is_selected: as long as the loop runs, there is one click less than
\* pages read, and one click for every page read when a page is about to be
\* read again.
C24_Original ==
    Len(pagesRead) < MaxReads =>
        /\ epc = "next" => nextClicks = Len(pagesRead) - 1
        /\ (epc = "read_page" /\ pagesRead # <<>>) => nextClicks = Len(pagesRead)

\* C25: a wait for the table that times out in the loop, on the first page
\* or on a later one, ends _extract_table with the TimeoutException raised to
\* the caller: the loop is not left towards the frame, no row is added and
\* no file is written, then or later.
C25_TableTimeoutPropagates ==
    /\ [][epc = "read_page" =>
            \/ epc' = "next" /\ efault' = "none"
            \/ /\ epc' = "raised"
               /\ efault' = "TimeoutException"
               /\ data' = data
               /\ saved' = NoFile]_vars
    /\ [](efault = "TimeoutException" => (epc = "raised" /\ saved = NoFile))
    /\ [][epc = "raised" => UNCHANGED <<epc, efault, data, saved>>]_vars

\* The table could not be found again after the first page had been read
\* and the next-page control clicked.
C25_Witness ==
    /\ epc = "raised"
    /\ efault = "TimeoutException"
    /\ pagesRead = <<1>>
    /\ nextClicks = 1
    /\ data # <<>>
    /\ saved = NoFile

\* The try block of lines 219-229 raises on this control: the lookup finds
\* nothing, the class attribute is None, or the click fails.
Raises(ctl) ==
    \/ ~ctl.present
    \/ ctl.class = "none"
    \/ ctl.class # "page-item disabled" /\ ~ctl.selected /\ ~ctl.clickOk

\* C26: an exception in the lookup, the inspection or the click of the
\* next-page control ends the loop as if the page were the last: the step
\* goes to the frame with the rows read so far and raises nothing, nothing
\* is read after it, and _extract_table returns with the file holding these
\* rows; an error that reaches the caller after it is one of building the
\* frame or writing the file, as after any last page.
C26_PaginationErrorsEndLoop ==
    /\ [][(epc = "next" /\ obsLog' # obsLog /\ Raises(Last(obsLog'))) =>
            /\ epc' = "frame"
            /\ data' = data
            /\ efault' = "none"]_vars
    /\ []((obsLog # <<>> /\ Raises(Last(obsLog))) =>
            /\ epc \in {"frame", "returned", "raised"}
            /\ epc = "raised" => efault \in {"ValueError", "OSError"}
            /\ epc = "returned" =>
                  (saved.written /\ saved.rows = FrameRows(data)))
    /\ [][(epc = "frame") => (data' = data /\ obsLog' = obsLog)]_vars

\* The click on an enabled control failed on the second page: the file
\* holds the rows of two pages.
C26_Witness ==
    /\ epc = "returned"
    /\ obsLog = <<CtlEnabled, CtlUnclickable>>
    /\ pagesRead = <<1, 2>>
    /\ saved.written
    /\ saved.rows = RowsOfPages(2)

\* The header cells that carry a name, and the i-th of them in document
\* order.
NamedCols == {c \in DOMAIN tbl.head : tbl.head[c]}
NthNamed(i) ==
    CHOOSE k \in NamedCols : Cardinality({j \in NamedCols : j <= k}) = i

\* C27: headers is set once, before any row is read, and never again; from
\* then on it holds the stripped texts of the header cells that are not
\* blank, in document order.
C27_HeadersReadOnce ==
    /\ [][headers' # headers =>
            (epc = "start" /\ data = <<>> /\ pagesRead = <<>>)]_vars
    /\ [](epc \in {"read_page", "next", "frame", "returned"} =>
            headers = [i \in 1..Cardinality(NamedCols) |->
                          [pad |-> FALSE, body |-> <<NthNamed(i)>>]])

\* A table whose second header cell is blank, read over two pages.
C27_Witness ==
    /\ epc = "returned"
    /\ tbl.head = <<TRUE, FALSE, TRUE>>
    /\ pagesRead = <<1, 2>>
    /\ headers = <<[pad |-> FALSE, body |-> <<1>>],
                   [pad |-> FALSE, body |-> <<3>>]>>
    /\ saved.columns = headers

\* ------------------------------------- claims on the wait of download_data
\* C28: the wait ends, whatever happens to the file: there are never more
\* polls than the timeout has seconds; when the wait has returned nothing,
\* there were exactly that many polls, none of which could open the file,
\* and the next step of download_data raises FileNotFoundError with os.rename
\* never called.
C28_WaitTerminates ==
    /\ [](Len(pollLog) <= max_download_wait)
    /\ []((dlpc = "waited" /\ downloaded_file = NoPath) =>
            /\ elapsed = max_download_wait
            /\ Len(pollLog) = max_download_wait
            /\ \A i \in DOMAIN pollLog : ~Opened(pollLog[i])
            /\ renameLog = <<>>)
    /\ [][(dlpc = "waited" /\ downloaded_file = NoPath /\ dlpc' # dlpc) =>
            /\ dlpc' = "raised"
            /\ dlfault' = "FileNotFoundError"
            /\ renameLog' = <<>>]_vars
    /\ [][dlpc = "raised" => UNCHANGED <<dlpc, dlfault, renameLog>>]_vars
    /\ (dlpc = "poll" ~> dlpc \in {"waited", "rename", "done", "raised"})

\* The file existed at every poll and stayed locked by its writer until the
\* timeout.
C28_Witness ==
    /\ dlpc = "raised"
    /\ dlfault = "FileNotFoundError"
    /\ max_download_wait > 1
    /\ Len(pollLog) = max_download_wait
    /\ \A i \in DOMAIN pollLog : pollLog[i] = Poll(TRUE, "PermissionError")
    /\ writer = "writing"
    /\ renameLog = <<>>

\* C29 as stated: the file system is polled only when the download control
\* was clicked in this run, and os.rename is called only after a poll.
C29_Original ==
    /\ (dlpc \in {"poll", "probe"} \/ pollLog # <<>>) => requested
    /\ renameLog # <<>> => pollLog # <<>>

\* The directory download_data works in.
DownloadDir ==
    IF download_directory = NoPath THEN HomeDownloads ELSE download_directory

\* C30 as stated: after a click on the download control, os.rename is
\* called with the path the wait returned as its source and with the new
\* name in the download directory as its destination, for a download
\* directory that is absolute, relative or unset.
C30_Original ==
    \A i \in DOMAIN renameLog :
        requested =>
        /\ renameLog[i].old = downloaded_file
        /\ renameLog[i].new =
              Path(DownloadDir.abs, DownloadDir.parts \o <<final_name>>)

\* ------------------------------------ claims on the file of a download run
\* C31 as stated: after a click on the download control, the file os.rename
\* is called on is never one that lay at the default path before the click
\* (left by an earlier run).
C31_Original ==
    requested => \A i \in DOMAIN renameLog : renameLog[i].src # "stale"

\* ------------------------------ claims on a header that shows no year
\* The header the widget shows when it opens carries no 4-digit year.
NoYearAtOpen == YearMatch(HeaderText(w0[1], w0[2], wKind, wCaps)) = 0

\* C32: when the header read at opening carries no 4-digit year, the year
\* read is taken to be the target year: select_date never activates "prev"
\* in the year loop, never raises NotImplementedError, and its step at the
\* year loop goes to the month loop.
C32_NoYearIsAligned ==
    /\ [](NoYearAtOpen =>
            /\ yearClicks = 0
            /\ dfault # "NotImplementedError"
            /\ dpc \notin {"year_read"}
            /\ dpc \in {"year_loop", "month_loop", "month_read", "day",
                        "returned"} => current_year = year)
    /\ [][(NoYearAtOpen /\ dpc = "year_loop") => dpc' = "month_loop"]_vars

\* A header without a year, whose month lies after the target month: the
\* month loop alone went back to it and the day was clicked.
C32_Witness ==
    /\ NoYearAtOpen
    /\ dpc = "returned"
    /\ yearClicks = 0
    /\ monthClicks > 0
    /\ year # w0[2]

\* ---------------------------------------- claims on the main workflow
\* C33: the extraction init_workflow starts looks for the next-page control
\* under '' and finds none: it reads the first page and no other, never
\* clicks a next-page control however many pages the table has, and when it
\* returns the file holds the rows of the first page.
C33_MainReadsOnePage ==
    usage = "main" =>
        /\ nextClicks = 0
        /\ uiPage = 1
        /\ pagesRead \in {<<>>, <<1>>}
        /\ \A i \in DOMAIN obsLog : ~obsLog[i].present
        /\ epc \in {"frame", "returned"} => data = RowsOfPages(1)
        /\ mpc = "done" =>
              /\ epc = "returned"
              /\ saved.written
              /\ saved.rows = FrameRows(RowsOfPages(1))

\* init_workflow has ended on a table of three pages.
C33_Witness ==
    /\ usage = "main"
    /\ mpc = "done"
    /\ Len(tbl.pages) = 3
    /\ pagesRead = <<1>>
    /\ Len(saved.rows) = Len(tbl.pages[1])
    /\ saved.written

\* The calendar day of a datetime, as a number that grows with it.
DayOf(t) == (t[1] * 13 + t[2]) * 32 + t[3]
\* The program was started after the instant END_DATE: on a later day, or
\* on the same day at a later second.
StartedAfterEnd ==
    \/ DayOf(now) > DayOf(END_DATE)
    \/ DayOf(now) = DayOf(END_DATE) /\ now[4] > END_DATE[4]

\* C34 as stated, END_DATE taken as the day 2025-05-01: on a day that is
\* not later than that day the workflow does not exit at the date check.
C34_Original ==
    (usage = "main" /\ DayOf(now) <= DayOf(END_DATE)) => mfault # "SystemExit"

\* C34 amended: when datetime.now() is later than 2025-05-01 00:00:00, that
\* is from the first instant after the midnight that begins 1 May 2025, the
\* workflow ends at the date check with SystemExit: no driver is created,
\* nothing is navigated to, clicked or extracted; otherwise the date check
\* goes on to the creation of the driver.
C34_ExitBeforeDriver ==
    /\ []((usage = "main" /\ StartedAfterEnd) =>
            /\ mpc \in {"check_date", "raised"}
            /\ mpc = "raised" => mfault = "SystemExit"
            /\ driver = "none"
            /\ service = NoService
            /\ epc = "idle")
    /\ []((usage = "main" /\ ~StartedAfterEnd) =>
            mfault # "SystemExit")
    /\ [][(mpc = "check_date" /\ ~StartedAfterEnd) =>
            mpc' = "init_driver"]_vars

\* The program was started one second after the midnight that begins
\* 1 May 2025 and has exited.
C34_Witness ==
    /\ usage = "main"
    /\ now = <<2025, 5, 1, 1>>
    /\ mpc = "raised"
    /\ mfault = "SystemExit"
    /\ driver = "none"

\* C35 as stated: the day DataSelectionService is built with lies in 1..31.
C35_Original ==
    service # NoService => service.day \in 1..31

====
